---- MODULE Spec2Model ----
(***************************************************************************)
(* Model of hamzah_dashboard/app.py: a Streamlit script whose main() loads *)
(* a ratings table and renders four views (Q1 genre distribution, Q2 mean  *)
(* rating by genre, Q3 rating trend by year, Q4 top movies), each          *)
(* recomputed from the table and the current widget values on every run.   *)
(*                                                                         *)
(* Numbers.  pandas computes shares and means in float64.  The model uses  *)
(* exact rationals <<n, d>> in lowest terms: the operands are small        *)
(* integers, a float64 quotient of two such integers is correctly rounded, *)
(* and rounding is monotone, so every comparison the code makes (>=, <,    *)
(* sort order) has the same outcome on the exact values for tables far     *)
(* larger than the ones enumerated here.  NaN is the pair <<0, 0>>.        *)
(*                                                                         *)
(* Tables.  A DataFrame is [cols, rows]: the set of column names and the   *)
(* sequence of rows.  Rows follow the data model: no null cell.            *)
(***************************************************************************)
EXTENDS Integers, Sequences, FiniteSets, TLC

VARIABLES
    file,       \* the data file on disk: "ok", "absent" or "unreadable"
    csv,        \* the table the file holds (static data set)
    cache,      \* st.cache_data entry of load_data: [valid, table]
    df,         \* main's local df (NoTable until load_data returned)
    widgets,    \* widget values kept by the session across reruns
    pc,         \* position of the current run of main
    rendered,   \* the elements this run has put on the page
    derived,    \* the table each view handed to its chart in this run
                \* (empty until the view's chart is rendered)
    exc         \* the exception that left main uncaught, or "none"

vars == <<file, csv, cache, df, widgets, pc, rendered, derived, exc>>

\* df before load_data has returned
NoTable == [cols |-> {}, rows |-> <<>>]

----------------------------------------------------------------------------
(* Bounds of the enumerated inputs *)

NumGenres == 11         \* distinct genre labels a Q1/Q2 table may hold
BigCount == 10          \* most ratings of the largest genre
MidCount == 2           \* most ratings of the second genre
NumGroups == 3          \* genres of a Q2 table
MaxPerGroup == 2        \* most ratings of one genre (Q2); largest floor tried
NumYears == 5           \* release years of a Q3 table
LongYears == 10         \* release years of the long Q3 table
NumMovies == 4          \* (movie_id, title) pairs of a Q4 table
MaxTopN == 5            \* largest top_n tried (the slider allows 25)
MaxChanged == 2         \* widgets a session moves away from their defaults

----------------------------------------------------------------------------
(* Exact arithmetic standing for float64 *)

RECURSIVE GCD(_, _)
GCD(a, b) == IF b = 0 THEN a ELSE GCD(b, a % b)

NaN == <<0, 0>>

\* n / d as a value; d > 0, n >= 0
Div(n, d) == LET g == GCD(n, d) IN <<n \div g, d \div g>>

IsNaN(a) == a[2] = 0

RatAdd(a, b) == Div(a[1] * b[2] + b[1] * a[2], a[2] * b[2])

RatGE(a, b) == a[1] * b[2] >= b[1] * a[2]

RatLT(a, b) == a[1] * b[2] < b[1] * a[2]

RatGT(a, b) == a[1] * b[2] > b[1] * a[2]

----------------------------------------------------------------------------
(* Labels and their sort order.  groupby sorts its keys; the labels are    *)
(* listed in that (lexicographic) order, so a key's rank is its index.     *)

GenreNames ==
    << "Action", "Adventure", "Animation", "Children", "Comedy", "Crime",
       "Documentary", "Drama", "Fantasy", "Horror", "Musical", "Mystery",
       "Romance", "Sci-Fi", "Thriller", "War", "Western" >>

Columns == {"movie_id", "title", "genres", "rating", "year"}

Row(m, t, g, r, y) ==
    [movie_id |-> m, title |-> t, genres |-> g, rating |-> r, year |-> y]

\* n copies of row r
Repeat(r, n) == [i \in 1..n |-> r]

RECURSIVE Concat(_)
Concat(ss) == IF ss = <<>> THEN <<>> ELSE Head(ss) \o Concat(Tail(ss))

RECURSIVE SumSeq(_)
SumSeq(s) == IF s = <<>> THEN 0 ELSE Head(s) + SumSeq(Tail(s))

RECURSIVE RatSum(_)
RatSum(s) == IF s = <<>> THEN <<0, 1>> ELSE RatAdd(Head(s), RatSum(Tail(s)))

----------------------------------------------------------------------------
(* Q1: genre distribution *)

\* df.groupby("genres").size().reset_index(name="count"), then the pct column
genre_counts(d) ==
    LET present == {d.rows[i].genres : i \in DOMAIN d.rows}
        InTable(g) == g \in present
        keys == SelectSeq(GenreNames, InTable)
        Size(g) == Cardinality({i \in DOMAIN d.rows : d.rows[i].genres = g})
        total == SumSeq([k \in DOMAIN keys |-> Size(keys[k])])
    IN  [k \in DOMAIN keys |->
            [genres |-> keys[k],
             count  |-> Size(keys[k]),
             pct    |-> Div(100 * Size(keys[k]), total)]]

\* a slip in the comparison: the genre whose share equals min_pct is dropped
major_gt(counts, min_pct) ==
    LET Keep(r) == RatGT(r.pct, min_pct) IN SelectSeq(counts, Keep)

\* genre_counts[genre_counts["pct"] >= min_pct]
major(counts, min_pct) ==
    LET Keep(r) == RatGE(r.pct, min_pct) IN SelectSeq(counts, Keep)

\* genre_counts[genre_counts["pct"] < min_pct]
minor(counts, min_pct) ==
    LET Keep(r) == RatLT(r.pct, min_pct) IN SelectSeq(counts, Keep)

\* the one-row frame built from minor
other_row(rest) ==
    [genres |-> "Other",
     count  |-> SumSeq([k \in DOMAIN rest |-> rest[k].count]),
     pct    |-> RatSum([k \in DOMAIN rest |-> rest[k].pct])]

\* a slip in the branch: the "Other" row is appended even when minor is empty
display_df_always_other(maj, rest) == Append(maj, other_row(rest))

\* if not minor.empty: concat([major, other_row]) else: major
display_df(maj, rest) ==
    IF rest # <<>> THEN Append(maj, other_row(rest)) ELSE maj

GenreDistribution(d, min_pct) ==
    LET counts == genre_counts(d)
    IN  display_df(major(counts, min_pct), minor(counts, min_pct))

\* st.slider(label, 0.0, 10.0, 2.0, 0.5): the values 0, 0.5, ..., 10
PctValues == {Div(k, 2) : k \in 0..20}

----------------------------------------------------------------------------
(* Q2: mean rating by genre *)

\* df.groupby("genres").agg(avg_rating=("rating", "mean"),
\*                          num_ratings=("rating", "size")).reset_index()
genre_stats(d) ==
    LET present == {d.rows[i].genres : i \in DOMAIN d.rows}
        InTable(g) == g \in present
        keys == SelectSeq(GenreNames, InTable)
        Of(g) == LET Is(r) == r.genres = g IN SelectSeq(d.rows, Is)
        Ratings(g) == [i \in DOMAIN Of(g) |-> Of(g)[i].rating]
    IN  [k \in DOMAIN keys |->
            [genres      |-> keys[k],
             avg_rating  |-> Div(SumSeq(Ratings(keys[k])), Len(Of(keys[k]))),
             num_ratings |-> Len(Of(keys[k]))]]

\* a slip in the comparison: a genre with exactly min_ratings ratings is dropped
filtered_gt(stats, min_ratings) ==
    LET Keep(r) == r.num_ratings > min_ratings
    IN  SelectSeq(stats, Keep)

\* genre_stats[genre_stats["num_ratings"] >= min_ratings]
filtered(stats, min_ratings) ==
    LET Keep(r) == r.num_ratings >= min_ratings
    IN  SelectSeq(stats, Keep)

\* a slip in the flag: the direction is taken from the other radio option
ascending_swapped(sort_order) == sort_order = "High -> Low"

\* ascending = sort_order == "Low -> High"
ascending(sort_order) == sort_order = "Low -> High"

Orderings(n) ==
    {f \in [1..n -> 1..n] : \A i, j \in 1..n : i # j => f[i] # f[j]}

\* frame.sort_values("avg_rating", ascending=ascending): the default sort kind
\* is not stable, so rows with equal avg_rating may come out in any order
\* and every ordering of the rows that respects the key is a possible result.
SortValuesAvg(frame, asc) ==
    LET n == Len(frame)
        InOrder(a, b) == IF asc THEN RatGE(b, a) ELSE RatGE(a, b)
    IN  {[i \in 1..n |-> frame[f[i]]] :
            f \in {g \in Orderings(n) :
                     \A i \in 1..(n - 1) :
                        InOrder(frame[g[i]].avg_rating,
                                frame[g[i + 1]].avg_rating)}}

\* the possible results of the Q2 pipeline
GenreRating(d, min_ratings, sort_order) ==
    SortValuesAvg(filtered(genre_stats(d), min_ratings),
                  ascending(sort_order))

SortOrders == {"High -> Low", "Low -> High"}

----------------------------------------------------------------------------
(* Q3: rating trend by year *)

YearsOf(d) == {d.rows[i].year : i \in DOMAIN d.rows}

\* df["year"].min() and .max(); the table has at least one row
MinYear(d) == CHOOSE y \in YearsOf(d) : \A z \in YearsOf(d) : y <= z

MaxYear(d) == CHOOSE y \in YearsOf(d) : \A z \in YearsOf(d) : y >= z

\* df.groupby("year").agg(avg_rating=("rating", "mean"),
\*                        n_ratings=("rating", "size")).reset_index()
year_stats(d) ==
    LET lo == MinYear(d)
        span == [k \in 1..(MaxYear(d) - lo + 1) |-> lo + k - 1]
        InTable(y) == y \in YearsOf(d)
        keys == IF d.rows = <<>> THEN <<>> ELSE SelectSeq(span, InTable)
        Of(y) == LET Is(r) == r.year = y IN SelectSeq(d.rows, Is)
        Ratings(y) == [i \in DOMAIN Of(y) |-> Of(y)[i].rating]
    IN  [k \in DOMAIN keys |->
            [year       |-> keys[k],
             avg_rating |-> Div(SumSeq(Ratings(keys[k])), Len(Of(keys[k]))),
             n_ratings  |-> Len(Of(keys[k]))]]

\* year_stats[mask & (year_stats["n_ratings"] >= min_count_year)]
year_filtered(stats, year_range, min_count_year) ==
    LET Keep(r) == /\ r.year >= year_range[1]
                   /\ r.year <= year_range[2]
                   /\ r.n_ratings >= min_count_year
    IN  SelectSeq(stats, Keep)

\* series.rolling(window=w, center=True).mean(): the window of position i ends
\* at i + (w - 1) // 2 and holds w positions; min_periods defaults to w, so a
\* window that runs past either end of the series yields NaN.
RollingCenteredMean(series, w) ==
    LET n == Len(series)
        offset == (w - 1) \div 2
        last(i) == i + offset
        first(i) == i + offset - w + 1
    IN  [i \in 1..n |->
            IF first(i) < 1 \/ last(i) > n
            THEN NaN
            ELSE LET total == RatSum([j \in 1..w |-> series[first(i) + j - 1]])
                 IN  Div(total[1], total[2] * w)]

WithSmoothed(kept, column) ==
    [i \in DOMAIN kept |->
        [year         |-> kept[i].year,
         avg_rating   |-> kept[i].avg_rating,
         n_ratings    |-> kept[i].n_ratings,
         avg_smoothed |-> column[i]]]

\* a slip: the else branch is missing, the column stays empty when w = 1
SmoothNoElse(kept, smooth_window) ==
    LET avg == [i \in DOMAIN kept |-> kept[i].avg_rating]
    IN  IF smooth_window > 1 /\ kept # <<>>
        THEN WithSmoothed(kept,
                          RollingCenteredMean(avg, smooth_window))
        ELSE WithSmoothed(kept, [i \in DOMAIN kept |-> NaN])

\* a slip: the window is taken trailing (center=False)
SmoothTrailing(kept, smooth_window) ==
    LET avg == [i \in DOMAIN kept |-> kept[i].avg_rating]
        n == Len(avg)
        w == smooth_window
        trailing == [i \in 1..n |->
            IF i - w + 1 < 1
            THEN NaN
            ELSE LET total == RatSum([j \in 1..w |-> avg[i - w + j]])
                 IN  Div(total[1], total[2] * w)]
    IN  IF smooth_window > 1 /\ kept # <<>>
        THEN WithSmoothed(kept, trailing)
        ELSE WithSmoothed(kept, avg)

\* if smooth_window > 1 and not year_filtered.empty: rolling mean
\* else: avg_smoothed = avg_rating
Smooth(kept, smooth_window) ==
    LET avg == [i \in DOMAIN kept |-> kept[i].avg_rating]
    IN  IF smooth_window > 1 /\ kept # <<>>
        THEN WithSmoothed(kept,
                          RollingCenteredMean(avg, smooth_window))
        ELSE WithSmoothed(kept, avg)

YearTrend(d, year_range, min_count_year, smooth_window) ==
    Smooth(year_filtered(year_stats(d), year_range, min_count_year), smooth_window)

\* st.slider("Select Year Range", min_year, max_year, (min_year, max_year)):
\* the value the session holds, or the default when it holds none
YearRange(d, held) == IF held = <<>> THEN <<MinYear(d), MaxYear(d)>> ELSE held

YearRanges(d) ==
    {<<lo, hi>> : lo \in MinYear(d)..MaxYear(d), hi \in MinYear(d)..MaxYear(d)}
        \cap {r \in Int \X Int : r[1] <= r[2]}

----------------------------------------------------------------------------
(* Q4: top movies *)

\* The (movie_id, title) pairs a table may hold, in groupby's key order
\* (movie_id first, then title).  Two pairs may share an id or a title.
MovieKeys ==
    << <<1, "A">>, <<1, "B">>, <<2, "A">>, <<2, "C">>, <<3, "B">>,
       <<4, "D">>, <<5, "E">> >>

\* df.groupby(["movie_id", "title"]).agg(avg_rating=("rating", "mean"),
\*                                       n_ratings=("rating", "size")).reset_index()
movie_stats(d) ==
    LET present == {<<d.rows[i].movie_id, d.rows[i].title>> : i \in DOMAIN d.rows}
        InTable(m) == m \in present
        keys == SelectSeq(MovieKeys, InTable)
        Of(m) == LET Is(r) == r.movie_id = m[1] /\ r.title = m[2]
                 IN  SelectSeq(d.rows, Is)
        Ratings(m) == [i \in DOMAIN Of(m) |-> Of(m)[i].rating]
    IN  [k \in DOMAIN keys |->
            [movie_id   |-> keys[k][1],
             title      |-> keys[k][2],
             avg_rating |-> Div(SumSeq(Ratings(keys[k])), Len(Of(keys[k]))),
             n_ratings  |-> Len(Of(keys[k]))]]

\* movie_stats[movie_stats["n_ratings"] >= min_movie_ratings]
filtered_movies(stats, min_movie_ratings) ==
    LET Keep(r) == r.n_ratings >= min_movie_ratings
    IN  SelectSeq(stats, Keep)

\* position i put into `sorted` (positions before i, already in order): it
\* goes in front of the first position it sorts strictly before, and behind
\* everything else
InsertStable(i, sorted, above) ==
    LET ahead == {k \in DOMAIN sorted : <<i, sorted[k]>> \in above}
        at == IF ahead = {} THEN Len(sorted) + 1
              ELSE CHOOSE k \in ahead : \A l \in ahead : k <= l
    IN  SubSeq(sorted, 1, at - 1) \o <<i>> \o SubSeq(sorted, at, Len(sorted))

\* The stable ordering of positions 1..n under `above`, the set of pairs
\* <<i, j>> with row i sorting strictly before row j: positions that `above`
\* does not separate keep their order.
RECURSIVE StableOrder(_, _)
StableOrder(n, above) ==
    IF n = 0 THEN <<>>
    ELSE InsertStable(n, StableOrder(n - 1, above), above)

\* a slip in the flags: ascending=[False, True]
SortMoviesCountAscending(frame) ==
    LET n == Len(frame)
        Above(a, b) ==
            \/ RatGT(a.avg_rating, b.avg_rating)
            \/ a.avg_rating = b.avg_rating /\ a.n_ratings < b.n_ratings
        f == StableOrder(n, {p \in (1..n) \X (1..n) :
                                Above(frame[p[1]], frame[p[2]])})
    IN  [i \in 1..n |-> frame[f[i]]]

\* frame.sort_values(["avg_rating", "n_ratings"], ascending=[False, False]):
\* a sort on several columns is a lexicographic, stable sort
SortMovies(frame) ==
    LET n == Len(frame)
        Above(a, b) ==
            \/ RatGT(a.avg_rating, b.avg_rating)
            \/ a.avg_rating = b.avg_rating /\ a.n_ratings > b.n_ratings
        f == StableOrder(n, {p \in (1..n) \X (1..n) :
                                Above(frame[p[1]], frame[p[2]])})
    IN  [i \in 1..n |-> frame[f[i]]]

\* frame.head(n)
HeadRows(frame, n) == SubSeq(frame, 1, IF n < Len(frame) THEN n ELSE Len(frame))

top_movies(d, min_movie_ratings, top_n) ==
    HeadRows(SortMovies(filtered_movies(movie_stats(d), min_movie_ratings)), top_n)

----------------------------------------------------------------------------
(* Widgets *)

Defaults ==
    [show_raw |-> FALSE,
     min_pct  |-> Div(2, 1),
     min_ratings |-> 50,
     sort_order  |-> "High -> Low",
     year_range  |-> <<>>,
     min_count_year |-> 50,
     smooth_window  |-> 1,
     min_movie_ratings |-> 50,
     top_n             |-> 5]

WidgetNames == DOMAIN Defaults

----------------------------------------------------------------------------
(* The run of main *)

NoDerived == [q1 |-> <<>>, q2 |-> <<>>, q3 |-> <<>>, q4 |-> <<>>]

\* show_header, then try: df = load_data() / except FileNotFoundError.
\* load_data is memoised by st.cache_data: a valid entry is returned without
\* touching the file; otherwise pd.read_csv reads it, and a result (never an
\* exception) is stored.  A missing file raises FileNotFoundError, which main
\* answers with st.error and return; any other failure of read_csv
\* (PermissionError, EmptyDataError, ParserError, UnicodeDecodeError) is not
\* caught and leaves main.
load_data ==
    /\ pc = "start"
    /\ IF cache.valid
       THEN /\ df' = cache.table
            /\ cache' = cache
            /\ rendered' = rendered \cup {"header"}
            /\ pc' = "controls"
            /\ exc' = exc
       ELSE IF file = "ok"
       THEN /\ df' = csv
            /\ cache' = [valid |-> TRUE, table |-> csv]
            /\ rendered' = rendered \cup {"header"}
            /\ pc' = "controls"
            /\ exc' = exc
       ELSE IF file = "absent"
       THEN /\ df' = df
            /\ cache' = cache
            /\ rendered' = rendered \cup {"header", "error"}
            /\ pc' = "done"
            /\ exc' = exc
       ELSE /\ df' = df
            /\ cache' = cache
            /\ rendered' = rendered \cup {"header"}
            /\ pc' = "crashed"
            /\ exc' = "ReadError"
    /\ UNCHANGED <<file, csv, widgets, derived>>

\* sidebar_controls, the raw preview when the toggle is on, st.tabs
sidebar_controls ==
    /\ pc = "controls"
    /\ rendered' = rendered \cup {"sidebar", "show_raw", "tabs"} \cup
          (IF widgets.show_raw THEN {"raw"} ELSE {})
    /\ pc' = "q1"
    /\ UNCHANGED <<file, csv, cache, df, widgets, derived, exc>>

\* with tabs[0]: the Q1 slider, the aggregation and the pie chart
RunQ1 ==
    /\ pc = "q1"
    /\ IF "genres" \in df.cols
       THEN /\ derived' = [derived EXCEPT
                  !.q1 = GenreDistribution(df, widgets.min_pct)]
            /\ rendered' = rendered \cup {"min_pct", "chart1"}
            /\ pc' = "q2"
            /\ exc' = exc
       ELSE /\ derived' = derived
            /\ rendered' = rendered \cup {"min_pct"}
            /\ pc' = "crashed"
            /\ exc' = "KeyError"
    /\ UNCHANGED <<file, csv, cache, df, widgets>>

\* a slip: the filtered frame is bound to the name df, so the later views
\* read the rows Q2 kept instead of the loaded table
RunQ2Rebinds ==
    /\ pc = "q2"
    /\ IF {"genres", "rating"} \subseteq df.cols
       THEN /\ \E shown \in GenreRating(df, widgets.min_ratings,
                                           widgets.sort_order) :
                  /\ derived' = [derived EXCEPT !.q2 = shown]
                  /\ df' = [df EXCEPT !.rows =
                              LET Kept(r) == \E k \in DOMAIN shown :
                                                shown[k].genres = r.genres
                              IN  SelectSeq(df.rows, Kept)]
            /\ rendered' = rendered \cup {"min_ratings", "sort_order", "chart2"}
            /\ pc' = "q3"
            /\ exc' = exc
       ELSE /\ derived' = derived
            /\ df' = df
            /\ rendered' = rendered \cup {"min_ratings", "sort_order"}
            /\ pc' = "crashed"
            /\ exc' = "KeyError"
    /\ UNCHANGED <<file, csv, cache, widgets>>

\* with tabs[1]: the Q2 inputs, the aggregation and the bar chart
RunQ2 ==
    /\ pc = "q2"
    /\ IF {"genres", "rating"} \subseteq df.cols
       THEN /\ \E shown \in GenreRating(df, widgets.min_ratings,
                                           widgets.sort_order) :
                  derived' = [derived EXCEPT !.q2 = shown]
            /\ rendered' = rendered \cup {"min_ratings", "sort_order", "chart2"}
            /\ pc' = "q3"
            /\ exc' = exc
       ELSE /\ derived' = derived
            /\ rendered' = rendered \cup {"min_ratings", "sort_order"}
            /\ pc' = "crashed"
            /\ exc' = "KeyError"
    /\ UNCHANGED <<file, csv, cache, df, widgets>>

\* a slip: a table without the year column is answered with an empty chart
RunQ3SilentEmpty ==
    /\ pc = "q3"
    /\ IF "year" \notin df.cols
       THEN /\ derived' = [derived EXCEPT !.q3 = <<>>]
            /\ rendered' = rendered \cup {"chart3"}
            /\ pc' = "q4"
            /\ exc' = exc
       ELSE IF df.rows = <<>>
       THEN /\ derived' = derived
            /\ rendered' = rendered
            /\ pc' = "crashed"
            /\ exc' = "ValueError"
       ELSE IF "rating" \notin df.cols
       THEN /\ derived' = derived
            /\ rendered' = rendered \cup
                  {"year_range", "min_count_year", "smooth_window"}
            /\ pc' = "crashed"
            /\ exc' = "KeyError"
       ELSE /\ derived' = [derived EXCEPT
                  !.q3 = YearTrend(df, YearRange(df, widgets.year_range),
                                   widgets.min_count_year,
                                   widgets.smooth_window)]
            /\ rendered' = rendered \cup
                  {"year_range", "min_count_year", "smooth_window", "chart3"}
            /\ pc' = "q4"
            /\ exc' = exc
    /\ UNCHANGED <<file, csv, cache, df, widgets>>

\* with tabs[2]: the year bounds, the Q3 inputs, the aggregation, the
\* smoothing and the line chart.  df["year"] raises KeyError without the
\* column; on a table without rows min() is NaN and int(NaN) raises
\* ValueError; the aggregation raises KeyError without the rating column.
RunQ3 ==
    /\ pc = "q3"
    /\ IF "year" \notin df.cols
       THEN /\ derived' = derived
            /\ rendered' = rendered
            /\ pc' = "crashed"
            /\ exc' = "KeyError"
       ELSE IF df.rows = <<>>
       THEN /\ derived' = derived
            /\ rendered' = rendered
            /\ pc' = "crashed"
            /\ exc' = "ValueError"
       ELSE IF "rating" \notin df.cols
       THEN /\ derived' = derived
            /\ rendered' = rendered \cup
                  {"year_range", "min_count_year", "smooth_window"}
            /\ pc' = "crashed"
            /\ exc' = "KeyError"
       ELSE /\ derived' = [derived EXCEPT
                  !.q3 = YearTrend(df, YearRange(df, widgets.year_range),
                                   widgets.min_count_year,
                                   widgets.smooth_window)]
            /\ rendered' = rendered \cup
                  {"year_range", "min_count_year", "smooth_window", "chart3"}
            /\ pc' = "q4"
            /\ exc' = exc
    /\ UNCHANGED <<file, csv, cache, df, widgets>>

\* with tabs[3]: the Q4 inputs, the aggregation and the bar chart; the end
\* of main
RunQ4 ==
    /\ pc = "q4"
    /\ IF {"movie_id", "title", "rating"} \subseteq df.cols
       THEN /\ derived' = [derived EXCEPT
                  !.q4 = top_movies(df, widgets.min_movie_ratings,
                                   widgets.top_n)]
            /\ rendered' = rendered \cup
                  {"min_movie_ratings", "top_n", "chart4"}
            /\ pc' = "done"
            /\ exc' = exc
       ELSE /\ derived' = derived
            /\ rendered' = rendered \cup {"min_movie_ratings", "top_n"}
            /\ pc' = "crashed"
            /\ exc' = "KeyError"
    /\ UNCHANGED <<file, csv, cache, df, widgets>>

----------------------------------------------------------------------------
(* The session: Streamlit runs the script from the top when the page is    *)
(* opened and again after every widget interaction; widget values persist  *)
(* across the reruns of a session.                                         *)

FreshRun ==
    /\ df' = NoTable
    /\ pc' = "start"
    /\ rendered' = {}
    /\ derived' = NoDerived
    /\ exc' = "none"

\* the values a widget of the page can be moved to
Choices(name) ==
    CASE name = "show_raw"          -> BOOLEAN
      [] name = "min_pct"           -> {Div(0, 1), Div(2, 1), Div(10, 1)}
      [] name = "min_ratings"       -> {0, 2, 50}
      [] name = "sort_order"        -> SortOrders
      [] name = "year_range"        -> YearRanges(csv)
      [] name = "min_count_year"    -> {0, 2, 50}
      [] name = "smooth_window"     -> {1, 2, 3}
      [] name = "min_movie_ratings" -> {1, 2, 50}
      [] name = "top_n"             -> {3, 5}

Changed(w) == {name \in WidgetNames : w[name] # Defaults[name]}

\* the user moves a widget that the current run has rendered; Streamlit
\* abandons the run where it stands and reruns the script with the new value
Interact ==
    /\ \E name \in WidgetNames \cap rendered :
          \E v \in Choices(name) \ {widgets[name]} :
             /\ widgets' = [widgets EXCEPT ![name] = v]
             /\ Cardinality(Changed(widgets')) <= MaxChanged
    /\ FreshRun
    /\ UNCHANGED <<file, csv, cache>>

\* the page is opened anew: a new session with default widget values
NewSession ==
    /\ pc # "start"
    /\ widgets' = Defaults
    /\ FreshRun
    /\ UNCHANGED <<file, csv, cache>>

\* @st.cache_data(ttl=3600): the entry expires
CacheExpire ==
    /\ cache.valid
    /\ cache' = [valid |-> FALSE, table |-> NoTable]
    /\ UNCHANGED <<file, csv, df, widgets, pc, rendered, derived, exc>>

\* the environment: the data file disappears, becomes unreadable, or is
\* put back
FileChange ==
    /\ \E f \in {"ok", "absent", "unreadable"} \ {file} : file' = f
    /\ UNCHANGED <<csv, cache, df, widgets, pc, rendered, derived, exc>>

----------------------------------------------------------------------------
(* Inputs of the session: a table of twelve ratings over four movies,      *)
(* three genres and four years, a table of three ratings, and the table    *)
(* without rows; each with all its columns or with one missing.            *)

SampleRows ==
    Repeat(Row(1, "A", "Comedy", 4, 2000), 5)
    \o Repeat(Row(2, "B", "Comedy", 5, 2001), 5)
    \o << Row(3, "C", "Drama", 2, 2001), Row(4, "D", "Action", 3, 2003) >>

SmallRows ==
    << Row(1, "A", "Comedy", 4, 2000), Row(1, "B", "Drama", 2, 2000),
       Row(2, "A", "Drama", 5, 2002) >>

SessionTables ==
    {[cols |-> c, rows |-> r] :
        c \in {Columns} \cup {Columns \ {x} : x \in Columns},
        r \in {SampleRows, SmallRows, <<>>}}

Init ==
    /\ file \in {"ok", "absent", "unreadable"}
    /\ csv \in SessionTables
    /\ cache = [valid |-> FALSE, table |-> NoTable]
    /\ df = NoTable
    /\ widgets = Defaults
    /\ pc = "start"
    /\ rendered = {}
    /\ derived = NoDerived
    /\ exc = "none"

Next ==
    \/ load_data
    \/ sidebar_controls
    \/ RunQ1
    \/ RunQ2
    \/ RunQ3
    \/ RunQ4
    \/ Interact
    \/ NewSession
    \/ CacheExpire
    \/ FileChange

Spec == Init /\ [][Next]_vars

----------------------------------------------------------------------------
(* Inputs of Q1: one genre with 0..BigCount ratings, one with              *)
(* 0..MidCount, and k further genres with one rating each.                 *)

GenreRows(g, n) == Repeat(Row(1, "A", GenreNames[g], 3, 2000), n)

GenreTable(a, b, k) ==
    [cols |-> Columns,
     rows |-> GenreRows(1, a) \o GenreRows(2, b)
              \o Concat([j \in 1..k |-> GenreRows(2 + j, 1)])]

Q1Tables ==
    {GenreTable(a, b, k) : a \in 0..BigCount, b \in 0..MidCount,
                           k \in 0..(NumGenres - 2)}

\* The state of a run of main that has reached `stage` on table t with
\* widget values w: the views before `stage` have been computed and rendered.
Stages == <<"q1", "q2", "q3", "q4">>

StageIndex(stage) == CHOOSE k \in DOMAIN Stages : Stages[k] = stage

RenderedBy(view) ==
    CASE view = "q1" -> {"min_pct", "chart1"}
      [] view = "q2" -> {"min_ratings", "sort_order", "chart2"}
      [] view = "q3" -> {"year_range", "min_count_year", "smooth_window",
                         "chart3"}
      [] view = "q4" -> {"min_movie_ratings", "top_n", "chart4"}

ReachedStage(stage, t, w) ==
    /\ file = "ok"
    /\ csv = t
    /\ cache = [valid |-> TRUE, table |-> t]
    /\ df = t
    /\ widgets = w
    /\ pc = stage
    /\ exc = "none"
    /\ rendered = {"header", "sidebar", "show_raw", "tabs"} \cup
          UNION {RenderedBy(Stages[k]) : k \in 1..(StageIndex(stage) - 1)}
    /\ \E r2 \in (IF StageIndex(stage) > 2
                  THEN GenreRating(t, w.min_ratings, w.sort_order)
                  ELSE {<<>>}) :
          derived =
             [q1 |-> IF StageIndex(stage) > 1
                     THEN GenreDistribution(t, w.min_pct) ELSE <<>>,
              q2 |-> r2,
              q3 |-> IF StageIndex(stage) > 3
                     THEN YearTrend(t, YearRange(t, w.year_range),
                                    w.min_count_year, w.smooth_window)
                     ELSE <<>>,
              q4 |-> <<>>]

InitQ1 ==
    \E t \in Q1Tables, p \in PctValues :
        ReachedStage("q1", t, [Defaults EXCEPT !.min_pct = p])

NextQ1 == RunQ1

SpecQ1 == InitQ1 /\ [][NextQ1]_vars

----------------------------------------------------------------------------
(* Q1 properties *)

Q1Done == "chart1" \in rendered

Q1Pcts == [k \in DOMAIN derived.q1 |-> derived.q1[k].pct]

Q1Counts == [k \in DOMAIN derived.q1 |-> derived.q1[k].count]

Q1SumsToWhole ==
    /\ RatSum(Q1Pcts) = <<100, 1>>
    /\ SumSeq(Q1Counts) = Len(df.rows)

\* The statement of C1 as written, for every table: the percentages of the
\* rows Q1 returns sum to 100 and their counts sum to the number of rows of
\* the table.
C1_Original == Q1Done => Q1SumsToWhole

\* C1 (amended): for every table with at least one row and every min_pct in
\* 0, 0.5, ..., 10, the percentages of the rows Q1 returns (the major genres
\* and the "Other" row when present) sum to 100 and their counts sum to the
\* number of rows of the table.
C1_PctSumTo100 == (Q1Done /\ df.rows # <<>>) => Q1SumsToWhole

\* Q1 has returned major genres together with an "Other" row
C1_Witness ==
    /\ Q1Done
    /\ Len(derived.q1) >= 3
    /\ derived.q1[Len(derived.q1)].genres = "Other"
    /\ derived.q1[Len(derived.q1)].count >= 2

\* The share of genre g in the table, from the rows themselves
RowsOf(g) == {i \in DOMAIN df.rows : df.rows[i].genres = g}

ShareOf(g) == Div(100 * Cardinality(RowsOf(g)), Len(df.rows))

GenresOfTable == {df.rows[i].genres : i \in DOMAIN df.rows}

BelowThreshold == {g \in GenresOfTable : RatLT(ShareOf(g), widgets.min_pct)}

RECURSIVE ShareSum(_)
ShareSum(G) ==
    IF G = {} THEN <<0, 1>>
    ELSE LET g == CHOOSE x \in G : TRUE
         IN  RatAdd(ShareOf(g), ShareSum(G \ {g}))

Q1RowsLabelled(g) == {k \in DOMAIN derived.q1 : derived.q1[k].genres = g}

\* C2: a genre has a row of its own exactly when its share is >= min_pct, and
\* that row carries its count and share; the genres below min_pct are merged
\* into one "Other" row carrying the sum of their counts and of their shares;
\* an "Other" row exists iff some genre is below min_pct; no row has count 0;
\* when every genre is below min_pct the result is the single row
\* ("Other", all rows, 100%).
C2_OtherMerge ==
    Q1Done =>
        /\ \A k \in DOMAIN derived.q1 :
              /\ derived.q1[k].genres \in GenresOfTable \cup {"Other"}
              /\ derived.q1[k].count > 0
        /\ \A g \in GenresOfTable :
              IF g \in BelowThreshold
              THEN Q1RowsLabelled(g) = {}
              ELSE /\ Cardinality(Q1RowsLabelled(g)) = 1
                   /\ \A k \in Q1RowsLabelled(g) :
                         /\ derived.q1[k].count = Cardinality(RowsOf(g))
                         /\ derived.q1[k].pct = ShareOf(g)
        /\ (Q1RowsLabelled("Other") # {}) <=> (BelowThreshold # {})
        /\ Cardinality(Q1RowsLabelled("Other")) <= 1
        /\ \A k \in Q1RowsLabelled("Other") :
              /\ derived.q1[k].count =
                    Cardinality({i \in DOMAIN df.rows :
                                    df.rows[i].genres \in BelowThreshold})
              /\ derived.q1[k].pct = ShareSum(BelowThreshold)
        /\ (BelowThreshold # {} /\ BelowThreshold = GenresOfTable) =>
              derived.q1 = << [genres |-> "Other", count |-> Len(df.rows),
                               pct |-> <<100, 1>>] >>

\* every genre of the table is below min_pct and Q1 returned the single row
C2_Witness ==
    /\ Q1Done
    /\ Cardinality(GenresOfTable) >= NumGenres
    /\ BelowThreshold = GenresOfTable
    /\ Len(derived.q1) = 1

\* no genre is below min_pct and Q1 returned the genres' own rows only
C2_WitnessNoOther ==
    /\ Q1Done
    /\ Cardinality(GenresOfTable) >= 2
    /\ BelowThreshold = {}
    /\ Len(derived.q1) = Cardinality(GenresOfTable)

----------------------------------------------------------------------------
(* Inputs of Q2: each of NumGroups genres holds any multiset of at most    *)
(* MaxPerGroup ratings drawn from RatingValues (possibly none).            *)

RatingValues == {1, 2}

\* the non-decreasing rating lists of length at most n
RatingLists(n) ==
    UNION {{s \in [1..m -> RatingValues] :
               \A i \in 1..(m - 1) : s[i] <= s[i + 1]} : m \in 0..n}

Q2Rows(g, ratings) ==
    [i \in DOMAIN ratings |-> Row(1, "A", GenreNames[g], ratings[i], 2000)]

Q2Tables ==
    {[cols |-> Columns,
      rows |-> Concat([g \in 1..NumGroups |-> Q2Rows(g, pick[g])])] :
        pick \in [1..NumGroups -> RatingLists(MaxPerGroup)]}

InitQ2 ==
    \E t \in Q2Tables, m \in 0..(MaxPerGroup + 1), o \in SortOrders :
        ReachedStage("q2", t, [Defaults EXCEPT !.min_ratings = m,
                                               !.sort_order = o])

NextQ2 == RunQ2

SpecQ2 == InitQ2 /\ [][NextQ2]_vars

----------------------------------------------------------------------------
(* Q2 properties *)

Q2Done == "chart2" \in rendered

Q2Avg(k) == derived.q2[k].avg_rating

\* C4: with sort_order "High -> Low" the mean ratings of the sequence Q2
\* returns are non-increasing, with "Low -> High" they are non-decreasing.
C4_SortDirection ==
    Q2Done =>
        \A k \in 1..(Len(derived.q2) - 1) :
            IF widgets.sort_order = "High -> Low"
            THEN RatGE(Q2Avg(k), Q2Avg(k + 1))
            ELSE RatGE(Q2Avg(k + 1), Q2Avg(k))

\* Q2 returned, highest first, genres of which two have different means
C4_Witness ==
    /\ Q2Done
    /\ widgets.sort_order = "High -> Low"
    /\ Len(derived.q2) >= 3
    /\ RatGT(Q2Avg(1), Q2Avg(Len(derived.q2)))

\* the same, lowest first
C4_WitnessAscending ==
    /\ Q2Done
    /\ widgets.sort_order = "Low -> High"
    /\ Len(derived.q2) >= 3
    /\ RatGT(Q2Avg(Len(derived.q2)), Q2Avg(1))

Q2Genres(frame) == {frame[k].genres : k \in DOMAIN frame}

\* the genres of the table with at least m ratings, from the rows themselves
GenresWithAtLeast(m) ==
    {g \in GenresOfTable : Cardinality(RowsOf(g)) >= m}

\* C5: Q2 returns exactly the genres with at least min_ratings ratings, once
\* each (a genre with exactly min_ratings ratings is kept); and for every
\* lower floor a <= min_ratings, every result of the pipeline at floor a holds
\* all the genres returned at min_ratings, hence at least as many rows.
C5_MonotoneFilter ==
    Q2Done =>
        /\ Q2Genres(derived.q2) = GenresWithAtLeast(widgets.min_ratings)
        /\ Len(derived.q2) = Cardinality(Q2Genres(derived.q2))
        /\ \A a \in 0..widgets.min_ratings :
              \A lower \in GenreRating(df, a, widgets.sort_order) :
                 /\ Q2Genres(derived.q2) \subseteq Q2Genres(lower)
                 /\ Len(derived.q2) <= Len(lower)

\* a genre with exactly min_ratings ratings was kept while another, with
\* fewer, was dropped
C5_Witness ==
    /\ Q2Done
    /\ widgets.min_ratings >= 2
    /\ \E g \in Q2Genres(derived.q2) :
          Cardinality(RowsOf(g)) = widgets.min_ratings
    /\ \E g \in GenresOfTable : g \notin Q2Genres(derived.q2)

----------------------------------------------------------------------------
(* Inputs of Q3: each of NumYears consecutive years holds no rating, one   *)
(* rating or two; besides, one table of LongYears years with one rating    *)
(* each, long enough for the widest window. The range, the floor and the   *)
(* window vary, the window over the whole slider.                          *)

Q3Lists == {<<>>, <<5>>, <<1, 2>>}

Q3Rows(y, ratings) ==
    [i \in DOMAIN ratings |-> Row(1, "A", "Drama", ratings[i], 2000 + y)]

Q3Tables ==
    {[cols |-> Columns,
      rows |-> Concat([y \in 1..NumYears |-> Q3Rows(y, pick[y])])] :
        pick \in [1..NumYears -> Q3Lists]}

LongTable ==
    [cols |-> Columns,
     rows |-> Concat([y \in 1..LongYears |->
                        Q3Rows(y, << 1 + ((y * y) % 5) >>)])]

\* st.slider("Rolling mean window (years)", 1, 9, 1)
Windows == 1..9

InitQ3 ==
    \E t \in Q3Tables \cup {LongTable} :
        \E r \in (IF t.rows = <<>> THEN {<<>>} ELSE YearRanges(t)),
           c \in 0..MaxPerGroup, w \in Windows :
            ReachedStage("q3", t, [Defaults EXCEPT !.year_range = r,
                                                   !.min_count_year = c,
                                                   !.smooth_window = w])

NextQ3 == RunQ3

SpecQ3 == InitQ3 /\ [][NextQ3]_vars

----------------------------------------------------------------------------
(* Q3 properties *)

Q3Done == "chart3" \in rendered

Q3Returned == pc \in {"q4", "crashed"}

C6_WitnessEmpty ==
    /\ Q3Done
    /\ widgets.smooth_window = 1
    /\ df.rows # <<>>
    /\ derived.q3 = <<>>
    /\ exc = "none"

\* the years of the table that pass the range and the floor, from the rows
YearRows(y) == {i \in DOMAIN df.rows : df.rows[i].year = y}

YearsKept ==
    {y \in YearsOf(df) :
        /\ y >= widgets.year_range[1]
        /\ y <= widgets.year_range[2]
        /\ Cardinality(YearRows(y)) >= widgets.min_count_year}

RECURSIVE SumOver(_, _)
SumOver(S, rows) ==
    IF S = {} THEN 0
    ELSE LET i == CHOOSE j \in S : TRUE
         IN  rows[i].rating + SumOver(S \ {i}, rows)

\* smoothing leaves the returned years, their counts and raw means alone:
\* they are the years kept by the filter, ascending, each with its own stats
Q3FrameUntouched ==
    /\ {derived.q3[k].year : k \in DOMAIN derived.q3} = YearsKept
    /\ \A k \in 1..(Len(derived.q3) - 1) :
          derived.q3[k].year < derived.q3[k + 1].year
    /\ \A k \in DOMAIN derived.q3 :
          LET y == derived.q3[k].year
          IN  /\ derived.q3[k].n_ratings = Cardinality(YearRows(y))
              /\ derived.q3[k].avg_rating =
                    Div(SumOver(YearRows(y), df.rows), Cardinality(YearRows(y)))

\* the mean of the raw means at index positions a..b of the result
Q3WindowMean(a, b) ==
    LET total == RatSum([j \in 1..(b - a + 1) |->
                            derived.q3[a + j - 1].avg_rating])
    IN  Div(total[1], total[2] * (b - a + 1))

\* the smoothed column is missing at the first `before` and the last `after`
\* positions and is the mean of the window k - before .. k + after elsewhere
Q3SmoothedBy(before, after) ==
    \A k \in DOMAIN derived.q3 :
        IF k <= before \/ k > Len(derived.q3) - after
        THEN IsNaN(derived.q3[k].avg_smoothed)
        ELSE derived.q3[k].avg_smoothed = Q3WindowMean(k - before, k + after)

\* The statement of C7 as written, for every window 1..9: the smoothed value
\* is missing for exactly the (w-1)/2 years at each end of the sequence and
\* is elsewhere the mean of w raw means around the position.  For an even w
\* the half (w-1)/2 is no integer; the statement is taken to hold when it
\* holds with the half rounded down or with the half rounded up, and with
\* any window of w index positions that holds the position.
C7_Original ==
    Q3Done =>
        LET w == widgets.smooth_window
            n == Len(derived.q3)
        IN  /\ Q3FrameUntouched
            /\ \E h \in {(w - 1) \div 2, w \div 2} :
                  \A k \in DOMAIN derived.q3 :
                     IF k <= h \/ k > n - h
                     THEN IsNaN(derived.q3[k].avg_smoothed)
                     ELSE \E a \in 1..(n - w + 1) :
                             /\ a <= k
                             /\ k <= a + w - 1
                             /\ derived.q3[k].avg_smoothed =
                                   Q3WindowMean(a, a + w - 1)

\* C7 (amended): for an odd window w the smoothed value is missing for
\* exactly the (w-1)/2 years at each end of the filtered sequence and is
\* elsewhere the mean of the w raw means centred on that index position; for
\* an even window w the window of position k is the index positions
\* k - w/2 .. k + w/2 - 1, so the value is missing for the first w/2 and the
\* last w/2 - 1 years; the returned years, counts and raw means are those of
\* the filter, whatever the window.
C7_CenteredWindow ==
    Q3Done =>
        LET w == widgets.smooth_window
        IN  /\ Q3FrameUntouched
            /\ Q3SmoothedBy(w \div 2, (w - 1) \div 2)

\* an odd window wider than 1 produced both missing and smoothed values over
\* years that are not calendar-adjacent
C7_Witness ==
    /\ Q3Done
    /\ widgets.smooth_window = 3
    /\ Len(derived.q3) >= 4
    /\ derived.q3[3].year > derived.q3[2].year + 1
    /\ IsNaN(derived.q3[1].avg_smoothed)
    /\ ~IsNaN(derived.q3[2].avg_smoothed)
    /\ derived.q3[2].avg_smoothed # derived.q3[2].avg_rating

\* an even window produced smoothed values
C7_WitnessEven ==
    /\ Q3Done
    /\ widgets.smooth_window = 4
    /\ Len(derived.q3) >= 5
    /\ ~IsNaN(derived.q3[3].avg_smoothed)
    /\ IsNaN(derived.q3[2].avg_smoothed)
    /\ IsNaN(derived.q3[Len(derived.q3)].avg_smoothed)

\* the widest window produced a smoothed value in the middle of ten years
\* and missing values on the four years at each end
C7_WitnessWidest ==
    /\ Q3Done
    /\ widgets.smooth_window = 9
    /\ Len(derived.q3) = 10
    /\ ~IsNaN(derived.q3[5].avg_smoothed)
    /\ ~IsNaN(derived.q3[6].avg_smoothed)
    /\ IsNaN(derived.q3[4].avg_smoothed)
    /\ IsNaN(derived.q3[7].avg_smoothed)

----------------------------------------------------------------------------
(* Inputs of Q4: each of NumMovies (movie_id, title) pairs holds any       *)
(* multiset of at most two ratings (possibly none).                        *)

Q4Rows(m, ratings) ==
    [i \in DOMAIN ratings |->
        Row(MovieKeys[m][1], MovieKeys[m][2], "Drama", ratings[i], 2000)]

Q4Tables ==
    {[cols |-> Columns,
      rows |-> Concat([m \in 1..NumMovies |-> Q4Rows(m, pick[m])])] :
        pick \in [1..NumMovies -> RatingLists(2)]}

\* Q4 is reached on a table with rows only: Q3 raises on an empty table
InitQ4 ==
    \E t \in {u \in Q4Tables : u.rows # <<>>}, m \in 1..3, n \in 3..MaxTopN :
        ReachedStage("q4", t, [Defaults EXCEPT !.min_movie_ratings = m,
                                               !.top_n = n])

NextQ4 == RunQ4

SpecQ4 == InitQ4 /\ [][NextQ4]_vars

----------------------------------------------------------------------------
(* Q4 properties *)

Q4Done == "chart4" \in rendered

MovieRows(m) ==
    {i \in DOMAIN df.rows : <<df.rows[i].movie_id, df.rows[i].title>> = m}

MoviesOfTable ==
    {<<df.rows[i].movie_id, df.rows[i].title>> : i \in DOMAIN df.rows}

\* the movies with at least min_movie_ratings ratings, from the rows
Qualifying ==
    {m \in MoviesOfTable :
        Cardinality(MovieRows(m)) >= widgets.min_movie_ratings}

MovieMean(m) == Div(SumOver(MovieRows(m), df.rows), Cardinality(MovieRows(m)))

\* movie a ranks strictly above movie b under (mean desc, count desc)
RanksAbove(a, b) ==
    \/ RatGT(MovieMean(a), MovieMean(b))
    \/ /\ MovieMean(a) = MovieMean(b)
       /\ Cardinality(MovieRows(a)) > Cardinality(MovieRows(b))

Q4Key(k) == <<derived.q4[k].movie_id, derived.q4[k].title>>

Q4Returned == {Q4Key(k) : k \in DOMAIN derived.q4}

\* C3: Q4 returns exactly min(top_n, number of qualifying (movie_id, title)
\* groups) rows, each a different qualifying movie with its own mean and
\* count, ordered by mean descending and, among equal means, by count
\* descending; no qualifying movie left out ranks strictly above a returned
\* one.
C3_TopMovies ==
    Q4Done =>
        /\ Len(derived.q4) =
              IF widgets.top_n < Cardinality(Qualifying)
              THEN widgets.top_n ELSE Cardinality(Qualifying)
        /\ Q4Returned \subseteq Qualifying
        /\ Cardinality(Q4Returned) = Len(derived.q4)
        /\ \A k \in DOMAIN derived.q4 :
              /\ derived.q4[k].avg_rating = MovieMean(Q4Key(k))
              /\ derived.q4[k].n_ratings = Cardinality(MovieRows(Q4Key(k)))
        /\ \A k \in 1..(Len(derived.q4) - 1) :
              ~RanksAbove(Q4Key(k + 1), Q4Key(k))
        /\ \A out \in Qualifying \ Q4Returned :
              \A k \in DOMAIN derived.q4 : ~RanksAbove(out, Q4Key(k))

\* top_n cut the result short of the qualifying movies, and two returned
\* movies with the same mean were ordered by their counts
C3_Witness ==
    /\ Q4Done
    /\ Len(derived.q4) = widgets.top_n
    /\ Cardinality(Qualifying) > widgets.top_n
    /\ \E k \in 1..(Len(derived.q4) - 1) :
          /\ derived.q4[k].avg_rating = derived.q4[k + 1].avg_rating
          /\ derived.q4[k].n_ratings > derived.q4[k + 1].n_ratings

\* fewer movies qualify than top_n asks for, and a movie was dropped by the floor
C3_WitnessShort ==
    /\ Q4Done
    /\ Len(derived.q4) = 2
    /\ Cardinality(MoviesOfTable) > 2
    /\ widgets.top_n >= 3

----------------------------------------------------------------------------
(* Session properties *)

Charts == {"chart1", "chart2", "chart3", "chart4"}

Views == Charts \cup {"tabs", "raw", "sidebar"}

\* the run has ended before sidebar_controls: load_data did not return
LoadFailed == pc \in {"done", "crashed"} /\ "sidebar" \notin rendered

Loaded == df # NoTable

\* no view is rendered and no pipeline has run unless load_data returned,
\* and a run whose load failed has rendered nothing but the header and,
\* possibly, the error message
C8_NoPipelineAfterFailure ==
    /\ LoadFailed =>
          /\ rendered \subseteq {"header", "error"}
          /\ derived = NoDerived
          /\ df = NoTable
    /\ (rendered \cap Views # {} \/ derived # NoDerived) => Loaded

\* C8: in a run whose load of the ratings file fails (the file is absent or
\* unreadable) the failure is shown as a message, no pipeline is invoked and
\* no view is rendered; a pipeline runs only after a successful load.
C8_DataSourceFailure ==
    /\ C8_NoPipelineAfterFailure
    /\ LoadFailed => "error" \in rendered

KeyColumns(view) ==
    CASE view = "q1" -> {"genres"}
      [] view = "q2" -> {"genres"}
      [] view = "q3" -> {"year"}
      [] view = "q4" -> {"movie_id", "title"}

ChartOf(view) ==
    CASE view = "q1" -> "chart1"
      [] view = "q2" -> "chart2"
      [] view = "q3" -> "chart3"
      [] view = "q4" -> "chart4"

\* the pipeline of the view has been entered in this run
Invoked(view) ==
    CASE view = "q1" -> "tabs" \in rendered
                        /\ pc \in {"q2", "q3", "q4", "done", "crashed"}
      [] view = "q2" -> "chart1" \in rendered
                        /\ pc \in {"q3", "q4", "done", "crashed"}
      [] view = "q3" -> "chart2" \in rendered
                        /\ pc \in {"q4", "done", "crashed"}
      [] view = "q4" -> "chart3" \in rendered
                        /\ pc \in {"done", "crashed"}

\* C9: when the loaded table lacks a grouping key column of a view, that
\* view never hands a table (empty or not) to its chart, the run does not
\* complete, and the view's pipeline, once entered, ends in a KeyError that
\* leaves main.
C9_MissingColumn ==
    \A view \in {"q1", "q2", "q3", "q4"} :
        (Loaded /\ ~(KeyColumns(view) \subseteq df.cols)) =>
            /\ ChartOf(view) \notin rendered
            /\ derived[view] = <<>>
            /\ pc # "done"
            /\ Invoked(view) => (pc = "crashed" /\ exc = "KeyError")

\* Q1 and Q2 were rendered and Q3 raised KeyError on a table without year
C9_Witness ==
    /\ Loaded
    /\ "year" \notin df.cols
    /\ df.rows # <<>>
    /\ {"chart1", "chart2"} \subseteq rendered
    /\ Invoked("q3")
    /\ pc = "crashed"
    /\ exc = "KeyError"

\* C10: the cached and the loaded table are the table of the file, and the
\* table each view has rendered is a result of its pipeline on that table
\* and on the current values of its own widgets, whatever was set before.
C10_Purity ==
    /\ cache.valid => cache.table = csv
    /\ Loaded => df = csv
    /\ Q1Done => derived.q1 = GenreDistribution(csv, widgets.min_pct)
    /\ Q2Done => derived.q2 \in GenreRating(csv, widgets.min_ratings,
                                            widgets.sort_order)
    /\ Q3Done => derived.q3 = YearTrend(csv, YearRange(csv, widgets.year_range),
                                        widgets.min_count_year,
                                        widgets.smooth_window)
    /\ Q4Done => derived.q4 = top_movies(csv, widgets.min_movie_ratings,
                                        widgets.top_n)

\* a run has completed after two widgets were moved, with rows in every view
C10_Witness ==
    /\ pc = "done"
    /\ Charts \subseteq rendered
    /\ Cardinality(Changed(widgets)) = 2
    /\ derived.q1 # <<>>
    /\ derived.q2 # <<>>
    /\ derived.q3 # <<>>

====
